---- MODULE Spec2Model ----
(***************************************************************************)
(* Model of the Kafka -> S3 archiver of opensensor-rs                      *)
(* (src/src/archiver/main.rs, run_archiver, and the helper                 *)
(* upload_object_zstd of src/src/archiver/mod.rs).                         *)
(*                                                                         *)
(* The loop of run_archiver is sequential; it is cut at its suspension     *)
(* points: stream.next().await (pc = "Consuming"), the awaited upload      *)
(* (pc = "Uploading") and the synchronous commit (pc = "Committing").      *)
(*                                                                         *)
(* Specifications:                                                         *)
(*   Spec        run_archiver                                              *)
(*   LiveSpec    run_archiver with uploads and commits that succeed        *)
(*   BucketSpec  create_bucket, delete_bucket   (src/src/archiver/mod.rs)  *)
(*   DeleteSpec  delete_objects                 (src/src/archiver/mod.rs)  *)
(*   TimeSpec    nanos_to_date_time             (src/src/measurement.rs)   *)
(*   MessageSpec Measurement::to_message, from_message                     *)
(*                                              (src/src/measurement.rs)   *)
(***************************************************************************)
EXTENDS Integers, Sequences, FiniteSets, TLC

\* ------------------------------------------------------------------ bounds
MaxMsgs  == 7      \* messages the stream delivers in one run
MaxChunk == 3      \* largest chunk_size tried
MaxTime  == 2      \* distinct values the wall clock can return
MaxCalls == 4      \* bucket calls made in one run of the bucket model
MaxSub   == 15     \* sub-second samples taken at each end of a second
MaxObjs  == 3      \* distinct object keys in the bucket that is emptied

VARIABLES
    chunk_size,       \* cli.chunk_size()
    consumed,         \* what stream.next() has returned so far, in order
    chunk_counter,    \* local chunk_counter
    archival_buffer,  \* local archival_buffer (Vec of per-record builders)
    pc,               \* where the loop is
    result,           \* value returned by run_archiver, "none" while running
    key,              \* key of the flush in progress
    data_uncompressed,\* finished flatbuffer of the flush in progress
    store,            \* the bucket: key -> object, NoObject where absent
    committed,        \* consumer-group offset stored by the broker
    log,              \* upload and commit events, in order
    buckets,          \* names of the buckets that exist on the S3 service
    calls,            \* create_bucket / delete_bucket calls made, with results
    unix_ns,          \* argument of nanos_to_date_time
    date_time,        \* value returned by nanos_to_date_time, Unset before
    contents,         \* keys of the objects in the bucket delete_objects empties
    delete_objects,   \* local delete_objects of delete_objects (keys to delete)
    key_count,        \* objects.key_count of the second listing, NoCount before
    del_pc,           \* where delete_objects is
    del_result,       \* value returned by delete_objects, "none" while running
    from_bytes,       \* the implementer's Measurement::from_bytes
    to_bytes,         \* Measurement::to_bytes of the implementer's type
    measurement,      \* the measurement given to to_message
    record,           \* the RedpandaRecord returned by to_message
    message,          \* the BorrowedMessage given to from_message
    decoded           \* the Result returned by from_message, Unset before

\* The variables of delete_objects and of the bucket it works on.
deleteVars == <<contents, delete_objects, key_count, del_pc, del_result>>

\* The variables of Measurement::to_message and Measurement::from_message.
messageVars == <<from_bytes, to_bytes, measurement, record, message, decoded>>

\* State outside run_archiver: the bucket calls, the time conversion, the
\* emptying of a bucket and the message conversions.
outsideLoop == <<buckets, calls, unix_ns, date_time, deleteVars, messageVars>>

\* The variables of run_archiver.
loopVars == <<chunk_size, consumed, chunk_counter, archival_buffer, pc, result,
              key, data_uncompressed, store, committed, log>>

vars == <<loopVars, outsideLoop>>

\* nanos_to_date_time has not been called.
Unset == [kind |-> "unset"]

\* No bucket has been created or deleted.
BucketIdle ==
    /\ buckets = {}
    /\ calls = <<>>

\* No instant has been converted.
TimeIdle ==
    /\ unix_ns = 0
    /\ date_time = Unset

\* objects.key_count has not been read.
NoCount == -1

\* delete_objects has not been called.
DeleteIdle ==
    /\ contents = {}
    /\ delete_objects = {}
    /\ key_count = NoCount
    /\ del_pc = "NotCalled"
    /\ del_result = "none"

\* No measurement, record or message.
NoMeasurement == "no measurement"
NoRecord == [kind |-> "no record"]
NoMessage == [kind |-> "no message"]

\* No Measurement type is in use.
MessageIdle ==
    /\ from_bytes = <<>>
    /\ to_bytes = <<>>
    /\ measurement = NoMeasurement
    /\ record = NoRecord
    /\ message = NoMessage
    /\ decoded = Unset

\* Nothing outside run_archiver has happened.
OutsideLoopIdle ==
    /\ BucketIdle
    /\ TimeIdle
    /\ DeleteIdle
    /\ MessageIdle

\* ------------------------------------------------------------- data types
Times == 1..MaxTime

\* What one item of the stream can be: a message with a parsable payload,
\* a message without payload, a message whose payload is not a
\* RadarMeasurement2d, or an Err item of the stream.
Kinds == {"data", "absent", "malformed", "recv_err"}

NoObject == [body |-> <<>>, content_type |-> "", content_encoding |-> ""]
NoKey == 0
NoData == [data |-> <<>>]

\* A record is named by its position in the stream (1-based).
Pos == Len(consumed)

RECURSIVE Reverse(_)
Reverse(s) == IF s = <<>> THEN <<>> ELSE Append(Reverse(Tail(s)), Head(s))

\* Variant of PopAll whose loop stops one element early.
PopAll_LeavesOne(buf) == IF buf = <<>> THEN <<>> ELSE Reverse(Tail(buf))

\* while let Some(m) = archival_buffer.pop() { ... offsets.push(offset) }
\* followed by fbb.create_vector(&offsets): the vector holds the records in
\* the order they were popped, last pushed first.
PopAll(buf) == Reverse(buf)

\* The finished RadarVector2D buffer: one table holding the vector `data`.
Encode(buf) == [data |-> PopAll(buf)]

\* Reading the RadarVector2D back: its `data` vector, front to back.
Decode(chunk) == chunk.data

\* zstd::bulk::compress(data_uncompressed, 0) and its inverse.
Compress(bytes) == [codec |-> "zstd", level |-> 0, raw |-> bytes]
Decompress(c) == c.raw

\* format!("{}/{}", cli.sensor_name(), now.to_rfc3339())
ArchiveKey(now) == now

\* if chunk_counter == chunk_size
FlushDue_OffByOne(counter) == counter + 1 = chunk_size
FlushDue(counter) == counter = chunk_size

Event(ev, k, d, p) == [ev |-> ev, key |-> k, data |-> d, pos |-> p]

\* ------------------------------------------------------------------- Init
Init ==
    /\ chunk_size \in 1..MaxChunk
    /\ consumed = <<>>
    /\ chunk_counter = 0
    /\ archival_buffer = <<>>
    /\ pc = "Consuming"
    /\ result = "none"
    /\ key = NoKey
    /\ data_uncompressed = NoData
    /\ store = [k \in Times |-> NoObject]
    /\ committed = 0
    /\ log = <<>>
    /\ OutsideLoopIdle

\* -------------------------------------------------------------- the loop
\* Variant of PutObject that leaves out the content-encoding header.
PutObject_NoEncoding(k, bytes) ==
    [store EXCEPT ![k] = [body |-> Compress(bytes),
                          content_type |-> "application/octet-stream",
                          content_encoding |-> ""]]

\* upload_object_zstd: compress, then put_object with the two headers.
\* The Ok branch: the put was acknowledged and the object is in the bucket.
PutObject(k, bytes) ==
    [store EXCEPT ![k] = [body |-> Compress(bytes),
                          content_type |-> "application/octet-stream",
                          content_encoding |-> "zstd"]]

\* Variant of ConsumeAbsent in which the stream is polled while an upload or
\* a commit is still outstanding.
ConsumeAbsent_WhileInFlight ==
    /\ pc \in {"Consuming", "Uploading", "Committing"}
    /\ Pos < MaxMsgs
    /\ consumed' = Append(consumed, "absent")
    /\ chunk_counter' = chunk_counter + 1
    /\ UNCHANGED <<chunk_size, archival_buffer, pc, result, key,
                   data_uncompressed, store, committed, log>>
    /\ UNCHANGED outsideLoop

\* Variant of ConsumeAbsent for a consumer left with enable.auto.commit on:
\* the offset of the delivered message is stored by the client.
ConsumeAbsent_AutoCommit ==
    /\ pc = "Consuming"
    /\ Pos < MaxMsgs
    /\ consumed' = Append(consumed, "absent")
    /\ chunk_counter' = chunk_counter + 1
    /\ committed' = Pos + 1
    /\ UNCHANGED <<chunk_size, archival_buffer, pc, result, key,
                   data_uncompressed, store, log>>
    /\ UNCHANGED outsideLoop

\* stream.next() gives Some(m), m has no payload: count it, warn, continue.
ConsumeAbsent ==
    /\ pc = "Consuming"
    /\ Pos < MaxMsgs
    /\ consumed' = Append(consumed, "absent")
    /\ chunk_counter' = chunk_counter + 1
    /\ UNCHANGED <<chunk_size, archival_buffer, pc, result, key,
                   data_uncompressed, store, committed, log>>
    /\ UNCHANGED outsideLoop

\* Variant of ConsumeData whose flush reads the buffer without emptying it.
ConsumeData_KeepsBuffer ==
    /\ pc = "Consuming"
    /\ Pos < MaxMsgs
    /\ consumed' = Append(consumed, "data")
    /\ chunk_counter' = chunk_counter + 1
    /\ LET pushed == Append(archival_buffer, Pos + 1) IN
       /\ archival_buffer' = pushed
       /\ IF FlushDue(chunk_counter + 1)
          THEN \E now \in Times :
                 /\ data_uncompressed' = Encode(pushed)
                 /\ key' = ArchiveKey(now)
                 /\ pc' = "Uploading"
          ELSE UNCHANGED <<pc, key, data_uncompressed>>
    /\ UNCHANGED <<chunk_size, result, store, committed, log>>
    /\ UNCHANGED outsideLoop

\* stream.next() gives Some(m) with a parsable payload: count it, push its
\* builder, and when the counter equals chunk_size build the chunk (popping
\* the whole buffer), take the clock, and start the upload.
ConsumeData ==
    /\ pc = "Consuming"
    /\ Pos < MaxMsgs
    /\ consumed' = Append(consumed, "data")
    /\ chunk_counter' = chunk_counter + 1
    /\ LET pushed == Append(archival_buffer, Pos + 1) IN
       IF FlushDue(chunk_counter + 1)
       THEN \E now \in Times :
              /\ data_uncompressed' = Encode(pushed)
              /\ archival_buffer' = <<>>
              /\ key' = ArchiveKey(now)
              /\ pc' = "Uploading"
       ELSE /\ archival_buffer' = pushed
            /\ UNCHANGED <<pc, key, data_uncompressed>>
    /\ UNCHANGED <<chunk_size, result, store, committed, log>>
    /\ UNCHANGED outsideLoop

\* root_as_radar_measurement_2d(bytes).unwrap() on a payload that is not a
\* RadarMeasurement2d: the task panics (after the counter was incremented).
ConsumeMalformed ==
    /\ pc = "Consuming"
    /\ Pos < MaxMsgs
    /\ consumed' = Append(consumed, "malformed")
    /\ chunk_counter' = chunk_counter + 1
    /\ pc' = "Panicked"
    /\ UNCHANGED <<chunk_size, archival_buffer, result, key,
                   data_uncompressed, store, committed, log>>
    /\ UNCHANGED outsideLoop

\* m.as_ref().unwrap() on an Err item of the stream: the task panics.
ConsumeRecvErr ==
    /\ pc = "Consuming"
    /\ Pos < MaxMsgs
    /\ consumed' = Append(consumed, "recv_err")
    /\ chunk_counter' = chunk_counter + 1
    /\ pc' = "Panicked"
    /\ UNCHANGED <<chunk_size, archival_buffer, result, key,
                   data_uncompressed, store, committed, log>>
    /\ UNCHANGED outsideLoop

\* Variant of StreamEnd that records the result and goes on polling.
StreamEnd_KeepsPolling ==
    /\ pc = "Consuming"
    /\ result = "none"
    /\ result' = "Ok"
    /\ UNCHANGED <<chunk_size, consumed, chunk_counter, archival_buffer, pc,
                   key, data_uncompressed, store, committed, log>>
    /\ UNCHANGED outsideLoop

\* stream.next() gives None: the while loop ends and Ok(()) is returned.
StreamEnd ==
    /\ pc = "Consuming"
    /\ pc' = "Returned"
    /\ result' = "Ok"
    /\ UNCHANGED <<chunk_size, consumed, chunk_counter, archival_buffer, key,
                   data_uncompressed, store, committed, log>>
    /\ UNCHANGED outsideLoop

\* upload_object_zstd(...).await is Ok(_): go on to the commit.
UploadOk ==
    /\ pc = "Uploading"
    /\ store' = PutObject(key, data_uncompressed)
    /\ log' = Append(log, Event("upload_ok", key, data_uncompressed, Pos))
    /\ pc' = "Committing"
    /\ UNCHANGED <<chunk_size, consumed, chunk_counter, archival_buffer,
                   result, key, data_uncompressed, committed>>
    /\ UNCHANGED outsideLoop

\* Variant of UploadErr that only logs the error and falls through to the
\* commit.
UploadErr_FallsThrough ==
    /\ pc = "Uploading"
    /\ log' = Append(log, Event("upload_err", key, data_uncompressed, Pos))
    /\ pc' = "Committing"
    /\ UNCHANGED <<chunk_size, consumed, chunk_counter, archival_buffer,
                   result, key, data_uncompressed, store, committed>>
    /\ UNCHANGED outsideLoop

\* Variant of UploadErr in which the offset is committed before the result
\* of the upload is looked at.
UploadErr_CommitsFirst ==
    /\ pc = "Uploading"
    /\ committed' = Pos
    /\ log' = log \o <<Event("commit_ok", key, data_uncompressed, Pos),
                       Event("upload_err", key, data_uncompressed, Pos)>>
    /\ pc' = "Returned"
    /\ result' = "S3Error"
    /\ UNCHANGED <<chunk_size, consumed, chunk_counter, archival_buffer,
                   key, data_uncompressed, store>>
    /\ UNCHANGED outsideLoop

\* upload_object_zstd(...).await is Err(e): return Err(S3Error(e)).
UploadErr ==
    /\ pc = "Uploading"
    /\ log' = Append(log, Event("upload_err", key, data_uncompressed, Pos))
    /\ pc' = "Returned"
    /\ result' = "S3Error"
    /\ UNCHANGED <<chunk_size, consumed, chunk_counter, archival_buffer,
                   key, data_uncompressed, store, committed>>
    /\ UNCHANGED outsideLoop

\* Variant of CommitOk that leaves out the reset of the counter.
CommitOk_KeepsCounter ==
    /\ pc = "Committing"
    /\ committed' = Pos
    /\ log' = Append(log, Event("commit_ok", key, data_uncompressed, Pos))
    /\ key' = NoKey
    /\ data_uncompressed' = NoData
    /\ pc' = "Consuming"
    /\ UNCHANGED <<chunk_size, consumed, chunk_counter, archival_buffer,
                   result, store>>
    /\ UNCHANGED outsideLoop

\* commit_consumer_state(CommitMode::Sync) is Ok: the group offset becomes
\* the consumer's position; the counter is reset and the loop goes on.
CommitOk ==
    /\ pc = "Committing"
    /\ committed' = Pos
    /\ log' = Append(log, Event("commit_ok", key, data_uncompressed, Pos))
    /\ chunk_counter' = 0
    /\ key' = NoKey
    /\ data_uncompressed' = NoData
    /\ pc' = "Consuming"
    /\ UNCHANGED <<chunk_size, consumed, archival_buffer, result, store>>
    /\ UNCHANGED outsideLoop

\* Variant of CommitErr that logs the error and tries the commit again.
CommitErr_Retries ==
    /\ pc = "Committing"
    /\ log' = Append(log, Event("commit_err", key, data_uncompressed, Pos))
    /\ UNCHANGED <<chunk_size, consumed, chunk_counter, archival_buffer, pc,
                   result, key, data_uncompressed, store, committed>>
    /\ UNCHANGED outsideLoop

\* Variant of CommitErr that wraps the error in the S3 variant.
CommitErr_WrongVariant ==
    /\ pc = "Committing"
    /\ log' = Append(log, Event("commit_err", key, data_uncompressed, Pos))
    /\ pc' = "Returned"
    /\ result' = "S3Error"
    /\ UNCHANGED <<chunk_size, consumed, chunk_counter, archival_buffer,
                   key, data_uncompressed, store, committed>>
    /\ UNCHANGED outsideLoop

\* commit_consumer_state(CommitMode::Sync) is Err(e): log at error level,
\* return Err(KafkaError(e)).
CommitErr ==
    /\ pc = "Committing"
    /\ log' = Append(log, Event("commit_err", key, data_uncompressed, Pos))
    /\ pc' = "Returned"
    /\ result' = "KafkaError"
    /\ UNCHANGED <<chunk_size, consumed, chunk_counter, archival_buffer,
                   key, data_uncompressed, store, committed>>
    /\ UNCHANGED outsideLoop

\* main installs no signal handler: a shutdown signal ends the process
\* wherever the loop is, without running any more of it.
Shutdown ==
    /\ pc \in {"Consuming", "Uploading", "Committing"}
    /\ pc' = "Killed"
    /\ UNCHANGED <<chunk_size, consumed, chunk_counter, archival_buffer,
                   result, key, data_uncompressed, store, committed, log>>
    /\ UNCHANGED outsideLoop

\* async fn main() -> Result<(), ArchiveError>: what the process reports for
\* a value returned by run_archiver. Ok(()) ends with status 0 and no
\* message; an Err ends with status 1 and the Debug text of the error, which
\* starts with the name of the variant.
ProcessOutcome(res) ==
    IF res = "Ok" THEN [status |-> 0, message |-> ""]
    ELSE [status |-> 1, message |-> res]

Next ==
    \/ ConsumeAbsent
    \/ ConsumeData
    \/ ConsumeMalformed
    \/ ConsumeRecvErr
    \/ StreamEnd
    \/ UploadOk
    \/ UploadErr
    \/ CommitOk
    \/ CommitErr
    \/ Shutdown

Spec == Init /\ [][Next]_vars

\* ------------------------------------------------------------ type check
TypeOK ==
    /\ chunk_size \in 1..MaxChunk
    /\ consumed \in Seq(Kinds) /\ Len(consumed) <= MaxMsgs
    /\ chunk_counter \in 0..MaxMsgs
    /\ archival_buffer \in Seq(1..MaxMsgs)
    /\ pc \in {"Consuming", "Uploading", "Committing", "Returned",
               "Panicked", "Killed"}
    /\ result \in {"none", "Ok", "S3Error", "KafkaError"}
    /\ key \in Times \cup {NoKey}
    /\ committed \in 0..MaxMsgs

\* ------------------------------------------------- reading the event log
Last(s) == s[Len(s)]

IsCommit(e) == e.ev \in {"commit_ok", "commit_err"}

EventsOf(evs) == {i \in 1..Len(log) : log[i].ev \in evs}

Elems(s) == {s[i] : i \in 1..Len(s)}

\* The records a reader gets from a stored body: decompress, then decode.
ReadBack(body) == Decode(Decompress(body))

\* Records found in some object whose upload was acknowledged before
\* event number n of the log.
ArchivedBefore(n) ==
    UNION {Elems(ReadBack(Compress(log[j].data))) :
             j \in {i \in EventsOf({"upload_ok"}) : i < n}}

\* Position at which the consumer stood at the last successful commit
\* among the first n events of the log (0 when there is none).
LastCommitPos(n) ==
    LET cs == {i \in EventsOf({"commit_ok"}) : i <= n} IN
    IF cs = {} THEN 0
    ELSE log[CHOOSE i \in cs : \A j \in cs : j <= i].pos

\* Positions lo+1..hi of the stream that carried a parsable payload, in the
\* order they were consumed.
DataPositions(lo, hi) ==
    SelectSeq([i \in 1..(hi - lo) |-> lo + i], LAMBDA p : consumed[p] = "data")

\* ------------------------------------------------------------------- C1
\* C1: every commit is issued right after a successful upload of the same
\* batch cycle (same key, same chunk): the commits never outnumber the
\* successful uploads, and the k-th commit comes after the k-th successful
\* upload.
C1_CommitAfterUpload ==
    /\ \A i \in 1..Len(log) :
         IsCommit(log[i]) =>
           /\ i > 1
           /\ log[i - 1].ev = "upload_ok"
           /\ log[i - 1].key = log[i].key
           /\ log[i - 1].data = log[i].data
    /\ pc = "Committing" =>
         /\ log # <<>>
         /\ Last(log).ev = "upload_ok"
         /\ Last(log).key = key
         /\ Last(log).data = data_uncompressed
    /\ Cardinality(EventsOf({"commit_ok", "commit_err"}))
         <= Cardinality(EventsOf({"upload_ok"}))

C1_Witness ==
    /\ Cardinality(EventsOf({"commit_ok"})) = 2
    /\ Last(log).ev = "commit_ok"

C3_FatalOnCommitFailure ==
    [][ /\ (pc = "Committing" /\ log' # log /\ Last(log').ev = "commit_err") =>
             /\ pc' = "Returned"
             /\ result' = "KafkaError"
             /\ store' = store
             /\ committed' = committed
             /\ ReadBack(store'[key].body) = Decode(data_uncompressed)
        /\ (\E i \in 1..Len(log) : log[i].ev = "commit_err") =>
             /\ log' = log
             /\ store' = store
             /\ committed' = committed
             /\ consumed' = consumed
             /\ result' = "KafkaError"
      ]_vars

C3_Witness ==
    /\ result = "KafkaError"
    /\ Last(log).ev = "commit_err"
    /\ store[key].content_encoding = "zstd"
    /\ Cardinality(EventsOf({"upload_ok"})) = 2

\* ------------------------------------------------------------------- C4
\* Stream items consumed since the batch was created empty (loop start or
\* the last successful commit, where the counter is reset).
SinceReset == SubSeq(consumed, LastCommitPos(Len(log)) + 1, Pos)

AllData(s) == \A i \in 1..Len(s) : s[i] = "data"

RecordsUntilFull == chunk_size - chunk_counter

\* C5: consuming a message without payload adds nothing to the batch and
\* leaves the number of records still needed for a full batch as it was.
C5_AbsentDoesNotCount ==
    [][ (Len(consumed') = Len(consumed) + 1 /\ Last(consumed') = "absent") =>
          /\ archival_buffer' = archival_buffer
          /\ RecordsUntilFull' = RecordsUntilFull
      ]_vars

\* ------------------------------------------------------------------- C6
\* R1..R7, only R4 without payload.
Scenario == <<"data", "data", "data", "absent", "data", "data", "data">>

\* The trace of uploads and commits, each upload with the set of records
\* in the uploaded object.
Trace == [i \in 1..Len(log) |->
            IF log[i].ev = "upload_ok"
            THEN <<"upload", Elems(ReadBack(Compress(log[i].data)))>>
            ELSE <<log[i].ev>>]

\* C6: with chunk_size 3 and the scenario stream consumed to its end, with
\* every upload and commit successful, the trace is upload {R1,R2,R3},
\* commit, upload {R5,R6,R7}, commit.
C6_Scenario ==
    ( /\ chunk_size = 3
      /\ consumed = Scenario
      /\ pc = "Consuming"
      /\ EventsOf({"upload_err", "commit_err"}) = {} ) =>
        Trace = << <<"upload", {1, 2, 3}>>, <<"commit_ok">>,
                   <<"upload", {5, 6, 7}>>, <<"commit_ok">> >>

\* ------------------------------------------------------------------- C7
\* Records with a payload that were consumed but are in no acknowledged
\* upload, or lie beyond the committed offset.
Unflushed ==
    {p \in Elems(DataPositions(0, Pos)) :
       p \notin ArchivedBefore(Len(log) + 1) \/ p > committed}

\* The loop was stopped between two flushes: by the end of the stream or by
\* a shutdown signal while it waited for the next record.
StoppedBetweenFlushes ==
    \/ pc = "Returned" /\ result = "Ok"
    \/ pc = "Killed" /\ data_uncompressed = NoData

\* C7: the loop does not stop leaving n gathered records, 0 < n <
\* chunk_size, without upload and commit: a final partial flush and its
\* commit come before the return.
C7_FinalPartialFlush ==
    StoppedBetweenFlushes =>
      ~(0 < Cardinality(Unflushed) /\ Cardinality(Unflushed) < chunk_size)

\* ------------------------------------------------------------------- C8
\* C8: the object of every flush reads back as the batch in the order the
\* records were consumed.
C8_RoundTripOrder ==
    pc = "Committing" =>
      ReadBack(store[key].body) = DataPositions(committed, Pos)

\* ------------------------------------------------------------------- C9
\* C9: the loop gives up with an upload error only after more than one
\* failed attempt to upload the batch.
C9_UploadRetried ==
    result = "S3Error" =>
      Cardinality({i \in EventsOf({"upload_err"}) : log[i].data = data_uncompressed}) > 1

\* ------------------------------------------------------------------ C10
\* C10: after a failed upload the loop has returned the S3 error, the last
\* event is that failure (no commit follows it), the group offset is the one
\* set by the previous successful commit, and every record of the failed
\* batch lies beyond it.
C10_UploadFailureNoCommit ==
    (\E i \in 1..Len(log) : log[i].ev = "upload_err") =>
      /\ pc = "Returned"
      /\ result = "S3Error"
      /\ Last(log).ev = "upload_err"
      /\ committed = LastCommitPos(Len(log) - 1)
      /\ \A p \in Elems(Decode(data_uncompressed)) : p > committed
      /\ \A i \in EventsOf({"commit_ok"}) : log[i].data # data_uncompressed

C10_Witness ==
    /\ result = "S3Error"
    /\ committed > 0
    /\ committed < Pos
    /\ Len(Decode(data_uncompressed)) > 1

\* ------------------------------------------------------------------ C11
\* C11: the in-memory batch never holds more than chunk_size records.
C11_BatchBounded == Len(archival_buffer) <= chunk_size

\* ------------------------------------------------------------------ C12
\* C12: every object in the bucket holds exactly chunk_size records.
C12_ObjectsHoldChunkSize ==
    \A k \in Times :
      store[k] # NoObject => Len(ReadBack(store[k].body)) = chunk_size

\* ------------------------------------------------------------------ C13
\* C13: consuming a message whose payload does not parse leaves the loop
\* running with the batch as it was.
C13_MalformedSkipped ==
    [][ (Len(consumed') = Len(consumed) + 1 /\ Last(consumed') = "malformed") =>
          /\ pc' = "Consuming"
          /\ archival_buffer' = archival_buffer
      ]_vars

\* ------------------------------------------------------------------ C14
\* Position of the record whose arrival triggered the flush of a chunk: the
\* last one pushed.
TriggerPos(chunk) ==
    CHOOSE p \in Elems(Decode(chunk)) : \A q \in Elems(Decode(chunk)) : q <= p

\* C14: from the start of an upload to the end of its commit no record is
\* consumed and no other upload is started: the consumer stands at the
\* record that triggered the flush while the cycle is in flight and at each
\* of its events, and a successful upload is followed by the commit of the
\* same chunk and by nothing else.
C14_OneCycleInFlight ==
    /\ pc \in {"Uploading", "Committing"} => Pos = TriggerPos(data_uncompressed)
    /\ \A i \in 1..Len(log) : log[i].pos = TriggerPos(log[i].data)
    /\ \A i \in 1..(Len(log) - 1) :
         log[i].ev = "upload_ok" =>
           /\ IsCommit(log[i + 1])
           /\ log[i + 1].key = log[i].key
           /\ log[i + 1].data = log[i].data

C14_Witness ==
    /\ pc = "Committing"
    /\ Cardinality(EventsOf({"upload_ok"})) = 2
    /\ Pos < MaxMsgs

\* ------------------------------------------------------------------ C15
\* C15: the loop never ends, by a shutdown signal or otherwise, with an
\* upload acknowledged and its commit neither done nor reported failed.
C15_NoAbandonedCycle ==
    pc \in {"Returned", "Panicked", "Killed"} =>
      (log = <<>> \/ Last(log).ev # "upload_ok")

\* ------------------------------------------------------------------ C16
\* How the run ended, read from the events: a failed commit, a failed
\* upload, or neither.
EndedBy ==
    IF EventsOf({"commit_err"}) # {} THEN "commit failure"
    ELSE IF EventsOf({"upload_err"}) # {} THEN "upload failure"
    ELSE "success"

\* C16: what the process reports when run_archiver returns tells the three
\* ends apart: clean success is reported as Ok, a failed upload as the S3
\* error, a failed commit as the Kafka error, and the three reports differ.
C16_OutcomesDistinct ==
    pc = "Returned" =>
      /\ EndedBy = "success" => ProcessOutcome(result) = ProcessOutcome("Ok")
      /\ EndedBy = "upload failure" =>
           ProcessOutcome(result) = ProcessOutcome("S3Error")
      /\ EndedBy = "commit failure" =>
           /\ ProcessOutcome(result) = ProcessOutcome("KafkaError")
           /\ ProcessOutcome(result) # ProcessOutcome("S3Error")
           /\ ProcessOutcome(result) # ProcessOutcome("Ok")

C16_Witness ==
    /\ pc = "Returned"
    /\ EndedBy = "commit failure"
    /\ Cardinality(EventsOf({"commit_ok"})) = 1

\* ------------------------------------------------------------------ C17
\* C17: two acknowledged uploads never use the same key.
C17_KeysUnique ==
    \A i, j \in EventsOf({"upload_ok"}) : i # j => log[i].key # log[j].key

\* ------------------------------------------------------------------ C18
\* C18: an upload reported Ok has put the compressed chunk under the key
\* with content-encoding zstd and content-type application/octet-stream; an
\* upload reported Err leaves the bucket as it was and is returned as an
\* error.
C18_UploadResult ==
    [][ /\ (log' # log /\ Last(log').ev = "upload_ok") =>
             /\ store'[key].content_encoding = "zstd"
             /\ store'[key].content_type = "application/octet-stream"
             /\ store'[key].body = Compress(data_uncompressed)
             /\ Decompress(store'[key].body) = data_uncompressed
             /\ \A k \in Times \ {key} : store'[k] = store[k]
        /\ (log' # log /\ Last(log').ev = "upload_err") =>
             /\ store' = store
             /\ result' # "Ok"
             /\ pc' = "Returned"
      ]_vars

C18_Witness ==
    /\ log # <<>>
    /\ Last(log).ev = "upload_ok"
    /\ store[key].content_encoding = "zstd"
    /\ Len(ReadBack(store[key].body)) = 3

\* ------------------------------------------------------------------ C22
\* The batch state the loop starts with: counter zero, buffer empty, no
\* chunk built.
FreshBatch ==
    /\ chunk_counter = 0
    /\ archival_buffer = <<>>
    /\ key = NoKey
    /\ data_uncompressed = NoData

\* C22: the step of a successful commit ends in Consuming with the counter
\* zero and the buffer empty, the batch state of the start of the loop.
C22_CommitResets ==
    [][ (log' # log /\ Last(log').ev = "commit_ok") =>
          /\ pc' = "Consuming"
          /\ chunk_counter' = 0
          /\ archival_buffer' = <<>>
          /\ FreshBatch'
      ]_vars

C22_Witness ==
    /\ log # <<>>
    /\ Last(log).ev = "commit_ok"
    /\ Cardinality(EventsOf({"commit_ok"})) = 2
    /\ pc = "Consuming"
    /\ FreshBatch
    /\ \E p \in 1..Pos : consumed[p] = "absent"

\* ------------------------------------------------------------------ C23
\* The records read back from the object of upload event number i.
RecordsOf(i) == Elems(ReadBack(Compress(log[i].data)))

\* C23: no record is in the objects of two uploads, no record is twice in
\* one object, and from the moment a chunk is built none of its records is
\* left in the buffer: the buffer is empty while the flush is in flight and
\* never again holds a record of an uploaded object.
C23_DrainedOnce ==
    /\ \A i, j \in EventsOf({"upload_ok", "upload_err"}) :
         i # j => RecordsOf(i) \cap RecordsOf(j) = {}
    /\ \A i \in EventsOf({"upload_ok", "upload_err"}) :
         /\ Cardinality(RecordsOf(i)) = Len(ReadBack(Compress(log[i].data)))
         /\ RecordsOf(i) \cap Elems(archival_buffer) = {}
    /\ pc \in {"Uploading", "Committing"} =>
         /\ archival_buffer = <<>>
         /\ \A i \in EventsOf({"upload_ok"}) :
              log[i].data # data_uncompressed =>
                RecordsOf(i) \cap Elems(Decode(data_uncompressed)) = {}

C23_Witness ==
    /\ Cardinality(EventsOf({"upload_ok"})) = 2
    /\ chunk_size = 2
    /\ pc = "Consuming"
    /\ archival_buffer # <<>>
    /\ \A i \in EventsOf({"upload_ok"}) : Cardinality(RecordsOf(i)) = 2

\* ------------------------------------------------------------------ C24
\* C24: the group offset changes only in the step of a successful commit
\* (builder.set("enable.auto.commit", "false")): consuming a record with or
\* without payload, building a chunk, an upload, a failed commit, the end
\* of the stream and a shutdown leave it as it was; the commit sets it to
\* the consumer's position.
C24_OnlyCommitMovesOffset ==
    [][ /\ committed' # committed =>
             /\ pc = "Committing"
             /\ log' = Append(log, Event("commit_ok", key, data_uncompressed, Pos))
             /\ committed' = Pos
             /\ consumed' = consumed
        /\ (consumed' # consumed \/ store' # store \/ pc' = "Uploading"
              \/ data_uncompressed' \notin {data_uncompressed, NoData}
              \/ (log' # log /\ Last(log').ev # "commit_ok")) =>
             committed' = committed
      ]_vars

C24_Witness ==
    /\ committed > 0
    /\ committed < Pos
    /\ pc = "Committing"
    /\ \E p \in (committed + 1)..Pos : consumed[p] = "absent"
    /\ store[key] # NoObject

\* ------------------------------------------------------------------ C25
\* The loop with a stream that delivers messages with and without payload
\* and with every upload and every commit successful; it does not stop
\* while a step is possible.
LiveNext ==
    \/ ConsumeAbsent
    \/ ConsumeData
    \/ UploadOk
    \/ CommitOk

LiveSpec == Init /\ [][LiveNext]_vars /\ WF_vars(LiveNext)

\* Records in some object whose upload has been acknowledged.
Uploaded == ArchivedBefore(Len(log) + 1)

\* The stream went quiet before chunk_size records with a payload, record
\* p among them, had been delivered.
StreamRanDry(p) ==
    /\ Pos = MaxMsgs
    /\ pc = "Consuming"
    /\ Len(DataPositions(p - 1, Pos)) < chunk_size

\* The counter has reached chunk_size with no flush started: the message
\* that made it so had no payload, or the counter is already beyond.
PastFlushPoint == pc = "Consuming" /\ chunk_counter >= chunk_size

\* Once past the flush point the loop stays there and uploads nothing more,
\* whatever the stream delivers.
PastFlushPointIsStable ==
    [][PastFlushPoint => (PastFlushPoint' /\ log' = log /\ store' = store)]_vars

\* C25: with every upload and commit successful, every record with a
\* payload that is consumed is eventually in an uploaded object, unless the
\* stream stops delivering before a batch holding it can fill; this for
\* every interleaving of messages with and without payload.
C25_EventuallyUploaded ==
    \A p \in 1..MaxMsgs :
      (p <= Pos /\ consumed[p] = "data") ~> (p \in Uploaded \/ StreamRanDry(p))

\* ------------------------------------------------------------------ C26
\* run_archiver has returned: Ok(()) at the end of the stream, or one of
\* the two errors.
TerminalOutcome == result # "none"

\* C26: the end of the stream, a failed upload and a failed commit each
\* make run_archiver return, and once it has returned nothing more is
\* consumed, uploaded or committed: the state of the loop stays as it is.
C26_TerminalAbsorbing ==
    [][ /\ (log' # log /\ Last(log').ev \in {"upload_err", "commit_err"}) =>
             TerminalOutcome'
        /\ TerminalOutcome =>
             /\ consumed' = consumed
             /\ log' = log
             /\ store' = store
             /\ committed' = committed
             /\ pc' = pc
             /\ result' = result
      ]_vars

C26_Witness ==
    /\ TerminalOutcome
    /\ pc = "Returned"
    /\ result = "Ok"
    /\ Pos < MaxMsgs
    /\ archival_buffer # <<>>
    /\ Cardinality(EventsOf({"commit_ok"})) = 1

\* ====================================================== the bucket helpers
\* create_bucket and delete_bucket of src/src/archiver/mod.rs, called
\* against an S3 service that answers as test_create_delete_bucket expects.

\* run_archiver is not running.
LoopIdle ==
    /\ chunk_size = 1
    /\ consumed = <<>>
    /\ chunk_counter = 0
    /\ archival_buffer = <<>>
    /\ pc = "NotStarted"
    /\ result = "none"
    /\ key = NoKey
    /\ data_uncompressed = NoData
    /\ store = [k \in Times |-> NoObject]
    /\ committed = 0
    /\ log = <<>>

\* The names the calls are made with: two that follow the S3 naming rules
\* and the one of the test that does not.
BucketNames == {"test-bucket", "opensensor-archive", "test_bucket"}

ValidBucketName(n) == n # "test_bucket"

\* The service creates a bucket when the name is valid and not taken.
S3CreateAccepts(n) == ValidBucketName(n) /\ n \notin buckets

\* The service deletes a bucket that exists (buckets hold no objects here).
S3DeleteAccepts(n) == n \in buckets

Call(op, n, ok) == [op |-> op, name |-> n, ok |-> ok]

BucketInit ==
    /\ buckets \in SUBSET {n \in BucketNames : ValidBucketName(n)}
    /\ calls = <<>>
    /\ TimeIdle
    /\ DeleteIdle
    /\ MessageIdle
    /\ LoopIdle

\* create_bucket: send() succeeded, the event is logged, Ok(()).
CreateBucketOk(n) ==
    /\ Len(calls) < MaxCalls
    /\ S3CreateAccepts(n)
    /\ buckets' = buckets \cup {n}
    /\ calls' = Append(calls, Call("create_bucket", n, TRUE))
    /\ UNCHANGED <<loopVars, unix_ns, date_time, deleteVars, messageVars>>

\* Variant of CreateBucketErr that drops the result of send() and returns
\* Ok(()).
CreateBucketErr_Swallowed(n) ==
    /\ Len(calls) < MaxCalls
    /\ calls' = Append(calls, Call("create_bucket", n, TRUE))
    /\ UNCHANGED <<loopVars, buckets, unix_ns, date_time, deleteVars,
                   messageVars>>

\* create_bucket: send() failed (the service refused the request, or was
\* not reached) and `?` returns the error.
CreateBucketErr(n) ==
    /\ Len(calls) < MaxCalls
    /\ calls' = Append(calls, Call("create_bucket", n, FALSE))
    /\ UNCHANGED <<loopVars, buckets, unix_ns, date_time, deleteVars,
                   messageVars>>

\* delete_bucket: send() succeeded, the event is logged, Ok(()).
DeleteBucketOk(n) ==
    /\ Len(calls) < MaxCalls
    /\ S3DeleteAccepts(n)
    /\ buckets' = buckets \ {n}
    /\ calls' = Append(calls, Call("delete_bucket", n, TRUE))
    /\ UNCHANGED <<loopVars, unix_ns, date_time, deleteVars, messageVars>>

\* delete_bucket: send() failed and `?` returns the error.
DeleteBucketErr(n) ==
    /\ Len(calls) < MaxCalls
    /\ calls' = Append(calls, Call("delete_bucket", n, FALSE))
    /\ UNCHANGED <<loopVars, buckets, unix_ns, date_time, deleteVars,
                   messageVars>>

BucketNext ==
    \/ \E n \in BucketNames : CreateBucketOk(n)
    \/ \E n \in BucketNames : CreateBucketErr(n)
    \/ \E n \in BucketNames : DeleteBucketOk(n)
    \/ \E n \in BucketNames : DeleteBucketErr(n)

BucketSpec == BucketInit /\ [][BucketNext]_vars

\* ------------------------------------------------------------------ C19
\* C19: a create_bucket call returns Ok only for a valid name that no
\* existing bucket has, and the bucket exists afterwards; a create of an
\* existing bucket fails and leaves that bucket in place; after a delete
\* that returned Ok the bucket is gone and the service accepts a create of
\* the same name again.
C19_CreateDelete ==
    [][ calls' # calls =>
          LET c == Last(calls') IN
          /\ (c.op = "create_bucket" /\ c.ok) =>
               /\ ValidBucketName(c.name)
               /\ c.name \notin buckets
               /\ c.name \in buckets'
          /\ (c.op = "create_bucket" /\ c.name \in buckets) =>
               /\ ~c.ok
               /\ buckets' = buckets
          /\ (c.op = "delete_bucket" /\ c.ok) =>
               /\ c.name \in buckets
               /\ c.name \notin buckets'
               /\ \E n \in BucketNames : n = c.name /\ S3CreateAccepts(n)'
      ]_vars

\* The calls of the test's last part, and a create after them.
C19_Witness ==
    /\ Len(calls) = 4
    /\ calls[1] = Call("create_bucket", "test-bucket", TRUE)
    /\ calls[2] = Call("create_bucket", "test-bucket", FALSE)
    /\ calls[3] = Call("delete_bucket", "test-bucket", TRUE)
    /\ calls[4] = Call("create_bucket", "test-bucket", TRUE)

\* ===================================================== nanos_to_date_time
\* src/src/measurement.rs, nanos_to_date_time, as test_timestamp_nanos uses
\* it: an instant is turned into its nanosecond count and converted back.

Billion == 1000000000

\* Seconds since the epoch of the instants tried: two seconds before the
\* epoch and two after it (their nanosecond counts fit the checker's
\* integers).
SecsTried == -2..1

\* Sub-second parts tried: the first and the last ones of a second.
SubsTried == (0..MaxSub) \cup {Billion - 1 - k : k \in 0..MaxSub}

\* A DateTime<Utc>: whole seconds since the epoch (towards minus infinity)
\* and the nanoseconds into that second.
Instants == [secs : SecsTried, nanos : SubsTried]

\* DateTime::timestamp_nanos
TimestampNanos(t) == t.secs * Billion + t.nanos

\* i64 `/` and `%` of Rust: the quotient is rounded towards zero and the
\* remainder has the sign of the dividend.
TruncDiv(a, b) == IF a >= 0 THEN a \div b ELSE -((-a) \div b)
TruncRem(a, b) == a - b * TruncDiv(a, b)

\* `as u32` of an i64: the value modulo 2^32, kept as two 16-bit halves.
Half == 2^16
AsU32(r) ==
    IF r >= 0
    THEN [hi |-> (r \div Half) % Half, lo |-> r % Half]
    ELSE [hi |-> (Half + (r \div Half)) % Half, lo |-> r % Half]

U32Less(u, n) ==
    \/ u.hi < n \div Half
    \/ u.hi = n \div Half /\ u.lo < n % Half

\* Utc.timestamp_opt(secs, nsecs): LocalResult::Single for a nanosecond
\* part below 2 * 10^9, LocalResult::None otherwise.
TimestampOpt(secs, nsecs) ==
    IF U32Less(nsecs, 2 * Billion)
    THEN [kind |-> "Single",
          value |-> [secs |-> secs, nanos |-> nsecs.hi * Half + nsecs.lo]]
    ELSE [kind |-> "None"]

\* nanos_to_date_time(unix_ns)
NanosToDateTimeOf(ns) ==
    TimestampOpt(TruncDiv(ns, Billion), AsU32(TruncRem(ns, Billion)))

TimeInit ==
    /\ unix_ns \in {TimestampNanos(t) : t \in Instants}
    /\ date_time = Unset
    /\ BucketIdle
    /\ DeleteIdle
    /\ MessageIdle
    /\ LoopIdle

\* let now_ns = measurement::nanos_to_date_time(now.timestamp_nanos())
NanosToDateTime ==
    /\ date_time = Unset
    /\ date_time' = NanosToDateTimeOf(unix_ns)
    /\ UNCHANGED <<loopVars, buckets, calls, unix_ns, deleteVars, messageVars>>

TimeNext == NanosToDateTime

TimeSpec == TimeInit /\ [][TimeNext]_vars

\* ------------------------------------------------------------------ C20
\* The instant whose nanosecond count is ns.
InstantOf(ns) == CHOOSE t \in Instants : TimestampNanos(t) = ns

\* C20: for every instant t, before or after the epoch,
\* nanos_to_date_time(t.timestamp_nanos()) is exactly t.
C20_NanosRoundTrip ==
    date_time # Unset =>
      date_time = [kind |-> "Single", value |-> InstantOf(unix_ns)]

\* ========================================================= delete_objects
\* delete_objects of src/src/archiver/mod.rs: list the bucket, ask for the
\* deletion of every key listed, list again and return Ok when the second
\* listing holds no key. Other clients of the bucket (an archiver that
\* uploads chunks) write objects at any moment.

ObjectKeys == 1..MaxObjs

DeleteInit ==
    /\ contents \in SUBSET ObjectKeys
    /\ delete_objects = {}
    /\ key_count = NoCount
    /\ del_pc = "ListFirst"
    /\ del_result = "none"
    /\ BucketIdle
    /\ TimeIdle
    /\ MessageIdle
    /\ LoopIdle

\* Another client puts an object into the bucket.
ConcurrentUpload(k) ==
    /\ del_pc # "NotCalled"
    /\ k \notin contents
    /\ contents' = contents \cup {k}
    /\ UNCHANGED <<delete_objects, key_count, del_pc, del_result>>
    /\ UNCHANGED <<loopVars, buckets, calls, unix_ns, date_time, messageVars>>

\* The first list_objects_v2 succeeded: every key of the listing is pushed
\* to delete_objects.
ListFirstOk ==
    /\ del_pc = "ListFirst"
    /\ delete_objects' = contents
    /\ del_pc' = "Delete"
    /\ UNCHANGED <<contents, key_count, del_result>>
    /\ UNCHANGED <<loopVars, buckets, calls, unix_ns, date_time, messageVars>>

\* The delete request was answered: the service has removed the keys of the
\* request it could remove (keys it could not remove are reported in the
\* answer, which the code does not read).
DeleteSendOk ==
    /\ del_pc = "Delete"
    /\ \E gone \in SUBSET delete_objects : contents' = contents \ gone
    /\ del_pc' = "ListSecond"
    /\ UNCHANGED <<delete_objects, key_count, del_result>>
    /\ UNCHANGED <<loopVars, buckets, calls, unix_ns, date_time, messageVars>>

\* Variant of ListSecondOk that returns Ok without looking at key_count.
ListSecondOk_IgnoresCount ==
    /\ del_pc = "ListSecond"
    /\ key_count' = Cardinality(contents)
    /\ del_result' = "Ok"
    /\ del_pc' = "Done"
    /\ UNCHANGED <<contents, delete_objects>>
    /\ UNCHANGED <<loopVars, buckets, calls, unix_ns, date_time, messageVars>>

\* The second list_objects_v2 succeeded: match objects.key_count, 0 gives
\* Ok(()), anything else Err(Error::Unhandled(..)).
ListSecondOk ==
    /\ del_pc = "ListSecond"
    /\ key_count' = Cardinality(contents)
    /\ del_result' = IF Cardinality(contents) = 0 THEN "Ok" ELSE "Unhandled"
    /\ del_pc' = "Done"
    /\ UNCHANGED <<contents, delete_objects>>
    /\ UNCHANGED <<loopVars, buckets, calls, unix_ns, date_time, messageVars>>

\* One of the three send().await? failed: the error of the request is
\* returned.
SendErr ==
    /\ del_pc \in {"ListFirst", "Delete", "ListSecond"}
    /\ del_result' = "SendError"
    /\ del_pc' = "Done"
    /\ UNCHANGED <<contents, delete_objects, key_count>>
    /\ UNCHANGED <<loopVars, buckets, calls, unix_ns, date_time, messageVars>>

DeleteNext ==
    \/ \E k \in ObjectKeys : ConcurrentUpload(k)
    \/ ListFirstOk
    \/ DeleteSendOk
    \/ ListSecondOk
    \/ SendErr

DeleteSpec == DeleteInit /\ [][DeleteNext]_vars

\* ------------------------------------------------------------------ C27
\* C27: delete_objects returns Ok only in the step of its second listing,
\* taken after the delete request, and only when that listing holds no key;
\* a second listing that holds a key, whoever wrote it and whenever, makes
\* it return an error. The result, once returned, stays.
C27_OkOnlyIfEmptyListing ==
    [][ /\ (del_result' = "Ok" /\ del_result # "Ok") =>
             /\ del_pc = "ListSecond"
             /\ contents = {}
             /\ key_count' = 0
        /\ (del_pc = "ListSecond" /\ key_count' # key_count) =>
             /\ key_count' = Cardinality(contents)
             /\ key_count' > 0 => del_result' = "Unhandled"
        /\ del_result # "none" => del_result' = del_result
      ]_vars

\* An object written by another client between the two listings is what
\* the second listing finds.
C27_Witness ==
    /\ del_result = "Unhandled"
    /\ key_count = 1
    /\ delete_objects # {}
    /\ contents \cap delete_objects = {}

\* ============================================== to_message / from_message
\* The default methods of the Measurement trait, src/src/measurement.rs,
\* for an implementer that supplies from_bytes, the conversion to bytes,
\* TOPIC_NAME and the error type.

\* The values of the implementer's measurement type.
Measurements == {"m1", "m2"}

\* The byte strings tried as payloads.
ByteStrings == {<<>>, <<1>>, <<2>>}

\* Option and Result.
None == [kind |-> "None"]
Some(v) == [kind |-> "Some", value |-> v]
Ok(v) == [kind |-> "Ok", value |-> v]
Err(e) == [kind |-> "Err", error |-> e]

\* Self::Error::empty_payload_error()
empty_payload_error == "EmptyPayloadError"

\* The values of the implementer's error type.
Errors == {empty_payload_error, "TimestampError"}

\* Result<Self, Self::Error>
Results == {Ok(m) : m \in Measurements} \cup {Err(e) : e \in Errors}

\* const TOPIC_NAME
TOPIC_NAME == "raw.surface.ais.vessel-static"

\* Variant of ToMessageOf that sends the bytes as the key of the record and
\* leaves the payload empty.
ToMessageOf_PayloadAsKey(m) ==
    [topic |-> TOPIC_NAME, key |-> Some(to_bytes[m]), payload |-> <<>>,
     headers |-> None]

\* to_message: RedpandaRecord::new(Self::TOPIC_NAME, None, payload, None)
\* with payload = self.to_bytes().
ToMessageOf(m) ==
    [topic |-> TOPIC_NAME, key |-> None, payload |-> to_bytes[m],
     headers |-> None]

\* Variant of FromMessageOf that reads an absent payload as no bytes.
FromMessageOf_EmptyBytes(msg) ==
    IF msg.payload = None THEN from_bytes[<<>>]
    ELSE from_bytes[msg.payload.value]

\* from_message: match message.payload() { Some(b) => b, None => return
\* Err(Self::Error::empty_payload_error()) }; Self::from_bytes(bytes)
FromMessageOf(msg) ==
    IF msg.payload = None THEN Err(empty_payload_error)
    ELSE from_bytes[msg.payload.value]

\* The message a consumer of the topic gets for a record: message.payload()
\* is Some of the bytes of the record.
Delivered(r) == [topic |-> r.topic, key |-> r.key, payload |-> Some(r.payload)]

MessageInit ==
    /\ from_bytes \in [ByteStrings -> Results]
    /\ to_bytes \in [Measurements -> ByteStrings]
    /\ measurement = NoMeasurement
    /\ record = NoRecord
    /\ message = NoMessage
    /\ decoded = Unset
    /\ BucketIdle
    /\ TimeIdle
    /\ DeleteIdle
    /\ LoopIdle

\* to_message is called on a measurement.
ToMessage(m) ==
    /\ record = NoRecord
    /\ message = NoMessage
    /\ measurement' = m
    /\ record' = ToMessageOf(m)
    /\ UNCHANGED <<from_bytes, to_bytes, message, decoded>>
    /\ UNCHANGED <<loopVars, buckets, calls, unix_ns, date_time, deleteVars>>

\* The record made by to_message is read from the topic.
DeliverRecord ==
    /\ record # NoRecord
    /\ message = NoMessage
    /\ message' = Delivered(record)
    /\ UNCHANGED <<from_bytes, to_bytes, measurement, record, decoded>>
    /\ UNCHANGED <<loopVars, buckets, calls, unix_ns, date_time, deleteVars>>

\* A message of another producer is read from the topic: with any payload
\* or with none.
DeliverOther(pl) ==
    /\ record = NoRecord
    /\ message = NoMessage
    /\ message' = [topic |-> TOPIC_NAME, key |-> None, payload |-> pl]
    /\ UNCHANGED <<from_bytes, to_bytes, measurement, record, decoded>>
    /\ UNCHANGED <<loopVars, buckets, calls, unix_ns, date_time, deleteVars>>

\* from_message is called on the message read.
FromMessage ==
    /\ message # NoMessage
    /\ decoded = Unset
    /\ decoded' = FromMessageOf(message)
    /\ UNCHANGED <<from_bytes, to_bytes, measurement, record, message>>
    /\ UNCHANGED <<loopVars, buckets, calls, unix_ns, date_time, deleteVars>>

MessageNext ==
    \/ \E m \in Measurements : ToMessage(m)
    \/ DeliverRecord
    \/ \E pl \in {None} \cup {Some(b) : b \in ByteStrings} : DeliverOther(pl)
    \/ FromMessage

MessageSpec == MessageInit /\ [][MessageNext]_vars

\* ------------------------------------------------------------------ C28
\* What from_bytes gives for the payload of the message read, when there
\* is one.
FromBytesOfPayload ==
    IF message.payload = None THEN Unset ELSE from_bytes[message.payload.value]

\* C28 as stated: from_message returns the empty-payload error exactly
\* when the payload is absent, and the result of from_bytes on the payload
\* when it is present.
C28_EmptyPayloadIffAbsent ==
    decoded # Unset =>
      /\ (decoded = Err(empty_payload_error)) <=> (message.payload = None)
      /\ message.payload # None => decoded = FromBytesOfPayload

\* C28, amended: from_message returns the empty-payload error whenever the
\* payload is absent and the result of from_bytes on the payload when it
\* is present; so its result is the empty-payload error exactly when the
\* payload is absent or from_bytes itself returns that error for the
\* payload.
C28_EmptyPayloadOrFromBytes ==
    decoded # Unset =>
      /\ message.payload = None => decoded = Err(empty_payload_error)
      /\ message.payload # None => decoded = FromBytesOfPayload
      /\ (decoded = Err(empty_payload_error)) <=>
           \/ message.payload = None
           \/ FromBytesOfPayload = Err(empty_payload_error)

C28_Witness ==
    /\ message # NoMessage
    /\ message.payload = None
    /\ decoded = Err(empty_payload_error)
    /\ from_bytes[<<>>] = Ok("m1")

\* ------------------------------------------------------------------ C29
\* C29: the record made by to_message is addressed to TOPIC_NAME, has no
\* key and has to_bytes of the measurement as payload; from_message on the
\* message read for that record gives from_bytes(to_bytes(m)), which is
\* Ok(m) whenever from_bytes inverts to_bytes on m.
C29_DefaultRoundTrip ==
    record # NoRecord =>
      /\ record.topic = TOPIC_NAME
      /\ record.key = None
      /\ record.payload = to_bytes[measurement]
      /\ (message # NoMessage /\ decoded # Unset) =>
           /\ decoded = from_bytes[to_bytes[measurement]]
           /\ from_bytes[to_bytes[measurement]] = Ok(measurement) =>
                decoded = Ok(measurement)

C29_Witness ==
    /\ record # NoRecord
    /\ measurement = "m2"
    /\ record.payload = <<2>>
    /\ message = Delivered(record)
    /\ decoded = Ok("m2")
    /\ to_bytes["m1"] = <<1>>
    /\ from_bytes[<<1>>] = Ok("m1")

====
